---- MODULE Spec2Model ----
(***************************************************************************)
(* Session lifecycle, playback scheduling and microphone frames of         *)
(* src/App.tsx (component App): the refs of lines 100-105, cleanup,        *)
(* startChat with the four transport callbacks and onaudioprocess,         *)
(* handleStop, handleNext, the unmount effect and the Controls buttons.    *)
(*                                                                         *)
(* Every call of startChat is one "session" s in 1..MaxEvents.  The        *)
(* objects a session creates (its MediaStream, its output AudioContext,    *)
(* its connection, its capture tap) are indexed by s; a ref holds 0 for    *)
(* null or the index of the session whose object it points to.             *)
(***************************************************************************)
EXTENDS Integers, Sequences, FiniteSets, TLC

\* ------------------------------------------------------------------ bounds
MaxEvents == 3        \* startChat calls plus inbound messages plus captured frames explored
MaxDur    == 2        \* audioBuffer.duration ranges over 1..MaxDur
MaxClock  == 1        \* AudioContext.currentTime ranges over 0..MaxClock

Sessions == 1..MaxEvents
MsgIds   == 1..MaxEvents
Frames   == 1..MaxEvents
Null     == 0
CloseCall == 0        \* the callback session => session.close() in a promise's queue

Active == {"CONNECTING", "CONNECTED"}

VARIABLES
  status,                  \* useState<ChatStatus>                     (l. 96)
  apiKey,                  \* process.env.API_KEY is set               (l. 148)
  sessionPromiseRef,       \* l. 100
  localStreamRef,          \* l. 101
  outputAudioContextRef,   \* l. 102
  nextStartTimeRef,        \* l. 103
  playingSourcesRef,       \* l. 104
  inputAudioProcessorRef,  \* l. 105
  nStarted,                \* number of startChat calls so far
  pc,                      \* where each startChat call stands
  stream,                  \* each session's MediaStream
  ctx,                     \* each session's output AudioContext
  clock,                   \* currentTime of each session's output context
  conn,                    \* each session's connection
  closeReq,                \* .then(session => session.close()) registered
  tap,                     \* each session's capture tap (source + processor)
  timers,                  \* pending setTimeout callbacks of handleNext
  decoding,                \* onmessage calls suspended at the await of l. 192
  nMsgs,                   \* inbound messages so far
  nIntr,                   \* interruptions handled so far
  sched,                   \* log of the source.start calls of l. 201
  stopPending,             \* the session whose connection was pending when stop() ran last
  last,                    \* the handler that ran last, its session, the status before it
  mounted,                 \* the component is mounted
  cancelledStarts,         \* startChat calls awaiting getUserMedia when stop() or the
                           \* unmount ran, no startChat call since
  nFrames,                 \* onaudioprocess events so far
  thens,                   \* callbacks registered on each pending connect promise
  sent,                    \* log of the sendRealtimeInput calls of l. 177
  dropped                  \* messages whose decodeAudioData rejected

vars == <<status, apiKey, sessionPromiseRef, localStreamRef, outputAudioContextRef,
          nextStartTimeRef, playingSourcesRef, inputAudioProcessorRef, nStarted, pc,
          stream, ctx, clock, conn, closeReq, tap, timers, decoding, nMsgs, nIntr,
          sched, stopPending, last, mounted, cancelledStarts, nFrames, thens, sent,
          dropped>>

\* What is left of the exploration budget.
Budget == nStarted + nMsgs + nFrames < MaxEvents

Max(a, b) == IF a >= b THEN a ELSE b

\* ------------------------------------------------------------------- Init
Init ==
  /\ status = "IDLE"
  /\ apiKey \in BOOLEAN
  /\ sessionPromiseRef = Null
  /\ localStreamRef = Null
  /\ outputAudioContextRef = Null
  /\ nextStartTimeRef = 0
  /\ playingSourcesRef = {}
  /\ inputAudioProcessorRef = Null
  /\ nStarted = 0
  /\ pc = [s \in Sessions |-> "idle"]
  /\ stream = [s \in Sessions |-> "none"]
  /\ ctx = [s \in Sessions |-> "none"]
  /\ clock = [s \in Sessions |-> 0]
  /\ conn = [s \in Sessions |-> "none"]
  /\ closeReq = [s \in Sessions |-> FALSE]
  /\ tap = [s \in Sessions |-> "none"]
  /\ timers = 0
  /\ decoding = {}
  /\ nMsgs = 0
  /\ nIntr = 0
  /\ sched = <<>>
  /\ stopPending = Null
  /\ last = [op |-> "init", s |-> Null, prev |-> "IDLE"]
  /\ mounted = TRUE
  /\ cancelledStarts = {}
  /\ nFrames = 0
  /\ thens = [s \in Sessions |-> <<>>]
  /\ sent = <<>>
  /\ dropped = {}

\* ---------------------------------------------------------------- cleanup
\* A cleanup that drops the stream ref without stopping its tracks.
StopTracksForgotten(streams, ref) == streams

\* l. 109-113: stop the tracks of the stream the ref points to.
StopTracks(streams, ref) ==
  IF ref # Null THEN [streams EXCEPT ![ref] = "stopped"] ELSE streams

\* l. 115-118: sessionPromiseRef.current.then(session => session.close()).
\* The callback runs once the promise has resolved: at once when the
\* connection is open, at the resolution (onopen) when it is pending, never
\* when the connection failed before it opened.
RequestClose(conns, ref) ==
  IF ref # Null /\ conns[ref] = "open" THEN [conns EXCEPT ![ref] = "closing"] ELSE conns

MarkCloseRequested(reqs, ref) ==
  IF ref # Null THEN [reqs EXCEPT ![ref] = TRUE] ELSE reqs

\* On a pending promise the close callback queues behind the callbacks
\* registered before it (l. 116).
RegisterClose(queues, conns, ref) ==
  IF ref # Null /\ conns[ref] = "pending"
    THEN [queues EXCEPT ![ref] = Append(@, CloseCall)]
    ELSE queues

\* A cleanup that drops the tap ref without disconnecting the nodes.
DisconnectTapForgotten(taps, ref) == taps

\* l. 120-124: disconnect the capture tap the ref points to.
DisconnectTap(taps, ref) ==
  IF ref # Null THEN [taps EXCEPT ![ref] = "disconnected"] ELSE taps

\* A cleanup that drops the context ref without closing the context.
CloseContextForgotten(ctxs, ref) == ctxs

\* l. 129-132: close the output context the ref points to.
CloseContext(ctxs, ref) ==
  IF ref # Null /\ ctxs[ref] # "closed" THEN [ctxs EXCEPT ![ref] = "closed"] ELSE ctxs

\* The part of cleanup() that touches neither the streams nor the connections
\* (l. 117, 120-134).
cleanupRest ==
  /\ closeReq' = MarkCloseRequested(closeReq, sessionPromiseRef)
  /\ sessionPromiseRef' = Null
  /\ tap' = DisconnectTap(tap, inputAudioProcessorRef)
  /\ inputAudioProcessorRef' = Null
  /\ playingSourcesRef' = {}
  /\ ctx' = CloseContext(ctx, outputAudioContextRef)
  /\ outputAudioContextRef' = Null
  /\ nextStartTimeRef' = 0

\* cleanup() (l. 108-135) on the refs as they stand.
cleanup ==
  /\ stream' = StopTracks(stream, localStreamRef)
  /\ localStreamRef' = Null
  /\ conn' = RequestClose(conn, sessionPromiseRef)
  /\ thens' = RegisterClose(thens, conn, sessionPromiseRef)
  /\ cleanupRest

\* --------------------------------------------------------------- startChat
\* l. 137-143: cleanup, CONNECTING, then suspend at await getUserMedia.
startChat(op) ==
  /\ Budget
  /\ nStarted' = nStarted + 1
  /\ cleanup
  /\ status' = "CONNECTING"
  /\ pc' = [pc EXCEPT ![nStarted + 1] = "gum"]
  /\ stopPending' = Null
  /\ cancelledStarts' = {}
  /\ last' = [op |-> op, s |-> nStarted + 1, prev |-> status]
  /\ UNCHANGED <<apiKey, clock, decoding, nMsgs, nIntr, sched, mounted, nFrames, sent,
                 dropped>>

\* Start button, rendered in IDLE, DISCONNECTED and ERROR (l. 73-76, 265).
ClickStart ==
  /\ mounted
  /\ status \in {"IDLE", "DISCONNECTED", "ERROR"}
  /\ startChat("start")
  /\ UNCHANGED timers

\* The timeout of handleNext fires (l. 240-242); nothing clears it, so it
\* fires after an unmount too.
TimerFires ==
  /\ timers > 0
  /\ timers' = timers - 1
  /\ startChat("timer")

\* getUserMedia resolves (l. 143-158).  With the credential the stream is
\* stored, the output context created and connect invoked; nothing here looks
\* at the refs' earlier contents.  Without it l. 149 throws with the stream
\* already stored, and the catch block (l. 225-229) sets ERROR and cleans up.
GumResolves(s) ==
  /\ pc[s] = "gum"
  /\ IF apiKey
       THEN /\ stream' = [stream EXCEPT ![s] = "live"]
            /\ localStreamRef' = s
            /\ ctx' = [ctx EXCEPT ![s] = "running"]
            /\ outputAudioContextRef' = s
            /\ conn' = [conn EXCEPT ![s] = "pending"]
            /\ sessionPromiseRef' = s
            /\ pc' = [pc EXCEPT ![s] = "run"]
            /\ last' = [op |-> "gumOk", s |-> s, prev |-> status]
            /\ UNCHANGED <<status, closeReq, tap, inputAudioProcessorRef,
                           playingSourcesRef, nextStartTimeRef, thens>>
       ELSE /\ stream' = StopTracks([stream EXCEPT ![s] = "live"], s)
            /\ localStreamRef' = Null
            /\ conn' = RequestClose(conn, sessionPromiseRef)
            /\ thens' = RegisterClose(thens, conn, sessionPromiseRef)
            /\ cleanupRest
            /\ status' = "ERROR"
            /\ pc' = [pc EXCEPT ![s] = "failed"]
            /\ last' = [op |-> "gumNoKey", s |-> s, prev |-> status]
  /\ UNCHANGED <<stopPending, apiKey, nStarted, clock, timers, decoding, nMsgs, nIntr, sched,
                 mounted, cancelledStarts, nFrames, sent, dropped>>

\* getUserMedia rejects: the catch block (l. 225-229).
GumRejects(s) ==
  /\ pc[s] = "gum"
  /\ status' = "ERROR"
  /\ cleanup
  /\ pc' = [pc EXCEPT ![s] = "failed"]
  /\ last' = [op |-> "gumFail", s |-> s, prev |-> status]
  /\ UNCHANGED <<stopPending, apiKey, nStarted, clock, timers, decoding, nMsgs, nIntr, sched,
                 mounted, cancelledStarts, nFrames, sent, dropped>>

\* ------------------------------------------------------- handleStop, handleNext
\* The body of handleStop (l. 232-235): DISCONNECTED, then cleanup.
stop ==
  /\ mounted
  /\ status' = "DISCONNECTED"
  /\ cleanup
  /\ stopPending' = IF sessionPromiseRef # Null /\ conn[sessionPromiseRef] = "pending"
                      THEN sessionPromiseRef ELSE Null
  /\ cancelledStarts' = cancelledStarts \cup {s \in Sessions : pc[s] = "gum"}
  /\ last' = [op |-> "stop", s |-> Null, prev |-> status]
  /\ UNCHANGED <<apiKey, nStarted, pc, clock, timers, decoding, nMsgs, nIntr, sched,
                 mounted, nFrames, sent, dropped>>

\* Stop button, rendered in CONNECTING and CONNECTED (l. 77-81).
handleStop ==
  /\ status \in Active
  /\ stop

\* handleStop called while the Stop button is not rendered: the handler has
\* no guard of its own (l. 232-235).
stopWhenInactive ==
  /\ status \notin Active
  /\ stop

\* The effect cleanup of l. 245-250 at unmount: cleanup() and nothing else.
\* The status is left as it was, and the handlers that outlive the component
\* (timer, transport callbacks, suspended calls) go on writing it.
unmount ==
  /\ mounted
  /\ mounted' = FALSE
  /\ cleanup
  /\ cancelledStarts' = cancelledStarts \cup {s \in Sessions : pc[s] = "gum"}
  /\ last' = [op |-> "unmount", s |-> Null, prev |-> status]
  /\ UNCHANGED <<status, stopPending, apiKey, nStarted, pc, clock, timers, decoding,
                 nMsgs, nIntr, sched, nFrames, sent, dropped>>

\* Next button, enabled in CONNECTED only (l. 82, 237-243): DISCONNECTED and a
\* timeout that calls startChat; no cleanup here.
handleNext ==
  /\ mounted
  /\ status = "CONNECTED"
  /\ status' = "DISCONNECTED"
  /\ timers' = timers + 1
  /\ last' = [op |-> "next", s |-> Null, prev |-> status]
  /\ UNCHANGED <<stopPending, apiKey, sessionPromiseRef, localStreamRef, outputAudioContextRef,
                 nextStartTimeRef, playingSourcesRef, inputAudioProcessorRef,
                 nStarted, pc, stream, ctx, clock, conn, closeReq, tap,
                 decoding, nMsgs, nIntr, sched, mounted, cancelledStarts, nFrames,
                 thens, sent, dropped>>

\* ------------------------------------------------------- transport callbacks
\* The callbacks queued on a connect promise run in registration order when
\* it resolves: each send is logged with whether the close ran before it.
RECURSIVE Flush(_, _, _)
Flush(queue, s, closed) ==
  IF queue = <<>> THEN <<>>
  ELSE IF Head(queue) = CloseCall THEN Flush(Tail(queue), s, TRUE)
  ELSE <<[f |-> Head(queue), s |-> s, afterClose |-> closed]>>
         \o Flush(Tail(queue), s, closed)

\* onopen (l. 168-185): a capture tap on the stream of this startChat call,
\* stored in the ref, and CONNECTED.  The connect promise resolves right after
\* the callback, which runs the sends and the close registered on it.
onopen(s) ==
  /\ conn[s] = "pending"
  /\ tap' = [tap EXCEPT ![s] = "connected"]
  /\ inputAudioProcessorRef' = s
  /\ status' = "CONNECTED"
  /\ conn' = [conn EXCEPT ![s] = IF closeReq[s] THEN "closing" ELSE "open"]
  /\ sent' = sent \o Flush(thens[s], s, FALSE)
  /\ thens' = [thens EXCEPT ![s] = <<>>]
  /\ last' = [op |-> "onopen", s |-> s, prev |-> status]
  /\ UNCHANGED <<stopPending, apiKey, sessionPromiseRef, localStreamRef, outputAudioContextRef,
                 nextStartTimeRef, playingSourcesRef, nStarted, pc, stream, ctx,
                 clock, closeReq, timers, decoding, nMsgs, nIntr, sched, mounted,
                 cancelledStarts, nFrames, dropped>>

\* onerror (l. 212-216): ERROR, then cleanup.  A connect promise that fails
\* before it resolves never runs the callbacks queued on it.
onerror(s) ==
  /\ conn[s] \in {"pending", "open"}
  /\ status' = "ERROR"
  /\ stream' = StopTracks(stream, localStreamRef)
  /\ localStreamRef' = Null
  /\ conn' = [RequestClose(conn, sessionPromiseRef) EXCEPT ![s] = "errored"]
  /\ thens' = [RegisterClose(thens, conn, sessionPromiseRef) EXCEPT ![s] = <<>>]
  /\ cleanupRest
  /\ last' = [op |-> "onerror", s |-> s, prev |-> status]
  /\ UNCHANGED <<stopPending, apiKey, nStarted, pc, clock, timers, decoding, nMsgs, nIntr, sched,
                 mounted, cancelledStarts, nFrames, sent, dropped>>

\* A close that always reports DISCONNECTED.
OnCloseStatusAlways(prev) == "DISCONNECTED"

\* The updater of l. 220.
OnCloseStatus(prev) ==
  IF prev = "CONNECTED" \/ prev = "CONNECTING" THEN "DISCONNECTED" ELSE prev

\* onclose (l. 217-221): the status updater and nothing else.
onclose(s) ==
  /\ conn[s] \in {"open", "closing", "errored"}
  /\ conn' = [conn EXCEPT ![s] = "closed"]
  /\ status' = OnCloseStatus(status)
  /\ last' = [op |-> "onclose", s |-> s, prev |-> status]
  /\ UNCHANGED <<stopPending, apiKey, sessionPromiseRef, localStreamRef, outputAudioContextRef,
                 nextStartTimeRef, playingSourcesRef, inputAudioProcessorRef,
                 nStarted, pc, stream, ctx, clock, closeReq, tap, timers,
                 decoding, nMsgs, nIntr, sched, mounted, cancelledStarts, nFrames,
                 thens, sent, dropped>>

\* ------------------------------------------------------------ onaudioprocess
\* A processor that sends on the connection of the startChat call it belongs to.
SendTargetOwn(ref, own) == own

\* The promise a captured frame is sent on (l. 175-176): whatever
\* sessionPromiseRef holds when the frame is captured.
SendTarget(ref, own) == ref

\* onaudioprocess of the processor session t connected (l. 172-180), with
\* sessionPromiseRef set: the send is queued on that promise while it is
\* pending and runs at once when it has resolved.  With the ref null the
\* handler does nothing.
onaudioprocess(t) ==
  /\ tap[t] = "connected"
  /\ sessionPromiseRef # Null
  /\ Budget
  /\ nFrames' = nFrames + 1
  /\ LET r == SendTarget(sessionPromiseRef, t)
     IN IF conn[r] = "pending"
          THEN /\ thens' = [thens EXCEPT ![r] = Append(@, nFrames + 1)]
               /\ sent' = sent
          ELSE /\ sent' = Append(sent, [f |-> nFrames + 1, s |-> r,
                                         afterClose |-> closeReq[r]])
               /\ thens' = thens
  /\ last' = [op |-> "onaudioprocess", s |-> t, prev |-> status]
  /\ UNCHANGED <<stopPending, status, apiKey, sessionPromiseRef, localStreamRef,
                 outputAudioContextRef, nextStartTimeRef, playingSourcesRef,
                 inputAudioProcessorRef, nStarted, pc, stream, ctx, clock, conn,
                 closeReq, tap, timers, decoding, nMsgs, nIntr, sched, mounted,
                 cancelledStarts, dropped>>

\* ------------------------------------------------------------------ onmessage
\* An interrupted branch that leaves the cursor where it is.
InterruptKeepsCursor(cursor) == cursor

\* The cursor after the interrupted branch (l. 209).
Interrupt(cursor) == 0

\* onmessage up to the await (l. 186-192), for a message with an audio part
\* while an output context is set: the cursor is raised to that context's
\* clock and the call suspends in decodeAudioData.
onmessageAudio(s, dur, intr) ==
  /\ conn[s] = "open"
  /\ Budget
  /\ outputAudioContextRef # Null
  /\ nMsgs' = nMsgs + 1
  /\ nextStartTimeRef' = Max(nextStartTimeRef, clock[outputAudioContextRef])
  /\ decoding' = decoding \cup
       {[id |-> nMsgs + 1, s |-> s, c |-> outputAudioContextRef, dur |-> dur,
         intr |-> intr, intrArr |-> nIntr]}
  /\ last' = [op |-> "onmessage", s |-> s, prev |-> status]
  /\ UNCHANGED <<stopPending, status, apiKey, sessionPromiseRef, localStreamRef,
                 outputAudioContextRef, playingSourcesRef, inputAudioProcessorRef,
                 nStarted, pc, stream, ctx, clock, conn, closeReq, tap, timers,
                 nIntr, sched, mounted, cancelledStarts,
                 nFrames, thens, sent, dropped>>

\* onmessage for a message with the interrupted flag and no audio part, or
\* with one while no output context is set: l. 188 is false and l. 206-210
\* run in the same turn.
onmessageInterrupted(s) ==
  /\ conn[s] = "open"
  /\ Budget
  /\ nMsgs' = nMsgs + 1
  /\ playingSourcesRef' = {}
  /\ nextStartTimeRef' = Interrupt(nextStartTimeRef)
  /\ nIntr' = nIntr + 1
  /\ last' = [op |-> "interrupted", s |-> s, prev |-> status]
  /\ UNCHANGED <<stopPending, status, apiKey, sessionPromiseRef, localStreamRef,
                 outputAudioContextRef, inputAudioProcessorRef, nStarted, pc,
                 stream, ctx, clock, conn, closeReq, tap, timers, decoding, sched, mounted, cancelledStarts,
                 nFrames, thens, sent, dropped>>

\* The start time handed to source.start (l. 201).
StartAt(cursor, now) == cursor

\* The rest of onmessage once decodeAudioData has resolved (l. 193-210): a
\* source on the context captured at l. 189, started at the cursor as it
\* stands now, the cursor advanced, the source added to the live set; then
\* the interrupted branch when the message carries the flag.  Nothing in
\* onmessage orders the resolutions of two pending decodeAudioData calls, so
\* any suspended call may resume next.
decoded(m) ==
  /\ \E x \in decoding : x.id = m
  /\ LET j  == CHOOSE x \in decoding : x.id = m
         at == StartAt(nextStartTimeRef, clock[j.c])
     IN /\ decoding' = decoding \ {j}
        /\ sched' = Append(sched, [id |-> j.id, s |-> j.s, c |-> j.c, at |-> at,
                                   dur |-> j.dur, now |-> clock[j.c],
                                   intrArr |-> j.intrArr, intrAt |-> nIntr])
        /\ IF j.intr
             THEN /\ playingSourcesRef' = {}
                  /\ nextStartTimeRef' = Interrupt(at + j.dur)
                  /\ nIntr' = nIntr + 1
                  /\ last' = [op |-> "interrupted", s |-> j.s, prev |-> status]
             ELSE /\ playingSourcesRef' = playingSourcesRef \cup {j.id}
                  /\ nextStartTimeRef' = at + j.dur
                  /\ nIntr' = nIntr
                  /\ last' = [op |-> "decoded", s |-> j.s, prev |-> status]
  /\ UNCHANGED <<stopPending, status, apiKey, sessionPromiseRef, localStreamRef,
                 outputAudioContextRef, inputAudioProcessorRef, nStarted, pc,
                 stream, ctx, clock, conn, closeReq, tap, timers, nMsgs, mounted, cancelledStarts,
                 nFrames, thens, sent, dropped>>

\* A handler that registers a playback handle for a payload it could not decode.
LiveAfterDecodeErrorRegistered(sources, id) == sources \cup {id}

\* The live set after decodeAudioData (or decode) threw: nothing after l. 192
\* runs, so it is the set as it was.
LiveAfterDecodeError(sources, id) == sources

\* decodeAudioData rejects, or decode throws (l. 192): onmessage has no catch,
\* so the call ends there, after the cursor update of l. 190 and without the
\* interrupted branch.
decodeFails(m) ==
  /\ \E x \in decoding : x.id = m
  /\ LET j == CHOOSE x \in decoding : x.id = m
     IN /\ decoding' = decoding \ {j}
        /\ playingSourcesRef' = LiveAfterDecodeError(playingSourcesRef, j.id)
        /\ dropped' = dropped \cup {j.id}
        /\ last' = [op |-> "decodeFailed", s |-> j.s, prev |-> status]
  /\ UNCHANGED <<stopPending, status, apiKey, sessionPromiseRef, localStreamRef,
                 outputAudioContextRef, nextStartTimeRef, inputAudioProcessorRef,
                 nStarted, pc, stream, ctx, clock, conn, closeReq, tap, timers,
                 nMsgs, nIntr, sched, mounted, cancelledStarts, nFrames, thens, sent>>

\* The 'ended' listener of a source that played to its end (l. 197-199).
ended(id) ==
  /\ id \in playingSourcesRef
  /\ playingSourcesRef' = playingSourcesRef \ {id}
  /\ last' = [op |-> "ended", s |-> Null, prev |-> status]
  /\ UNCHANGED <<stopPending, status, apiKey, sessionPromiseRef, localStreamRef,
                 outputAudioContextRef, nextStartTimeRef, inputAudioProcessorRef,
                 nStarted, pc, stream, ctx, clock, conn, closeReq, tap, timers,
                 decoding, nMsgs, nIntr, sched, mounted, cancelledStarts,
                 nFrames, thens, sent, dropped>>

\* currentTime of a running output context advances.  The program reads it
\* at l. 190 only, and the claims speak of its reading at l. 201 and after an
\* interruption, so it is advanced where one of these can still follow.
Tick(c) ==
  /\ ctx[c] = "running"
  /\ \/ /\ c = outputAudioContextRef
        /\ Budget
        /\ \E s \in Sessions : conn[s] = "open"
     \/ \E j \in decoding : j.c = c
  /\ clock[c] < MaxClock
  /\ clock' = [clock EXCEPT ![c] = clock[c] + 1]
  /\ last' = [op |-> "tick", s |-> c, prev |-> status]
  /\ UNCHANGED <<stopPending, status, apiKey, sessionPromiseRef, localStreamRef,
                 outputAudioContextRef, nextStartTimeRef, playingSourcesRef,
                 inputAudioProcessorRef, nStarted, pc, stream, ctx, conn, closeReq,
                 tap, timers, decoding, nMsgs, nIntr, sched, mounted, cancelledStarts,
                 nFrames, thens, sent, dropped>>

\* ------------------------------------------------------------------- Next
Next ==
  \/ ClickStart
  \/ TimerFires
  \/ handleStop
  \/ handleNext
  \/ unmount
  \/ \E s \in Sessions : GumResolves(s)
  \/ \E s \in Sessions : GumRejects(s)
  \/ \E s \in Sessions : onopen(s)
  \/ \E s \in Sessions : onerror(s)
  \/ \E s \in Sessions : onclose(s)
  \/ \E s \in Sessions, d \in 1..MaxDur, i \in BOOLEAN : onmessageAudio(s, d, i)
  \/ \E s \in Sessions : onmessageInterrupted(s)
  \/ \E t \in Sessions : onaudioprocess(t)
  \/ \E m \in MsgIds : decoded(m)
  \/ \E m \in MsgIds : decodeFails(m)
  \/ \E id \in MsgIds : ended(id)
  \/ \E c \in Sessions : Tick(c)

Spec == Init /\ [][Next]_vars

\* The same program with handleStop also called where the Stop button is not
\* rendered.
NextApi ==
  \/ Next
  \/ stopWhenInactive

SpecApi == Init /\ [][NextApi]_vars

\* ================================================================== claims
\* What the refs and a session's own objects look like after a full cleanup.
RefsNull ==
  /\ localStreamRef = Null
  /\ sessionPromiseRef = Null
  /\ inputAudioProcessorRef = Null
  /\ outputAudioContextRef = Null

SessionReleased(s) ==
  /\ stream[s] # "live"
  /\ tap[s] # "connected"
  /\ ctx[s] # "running"
  /\ conn[s] \in {"pending", "open"} => closeReq[s]

\* A session holds the microphone or a connection nobody asked to close.
Holds(s) ==
  \/ stream[s] = "live"
  \/ conn[s] \in {"pending", "open"} /\ ~closeReq[s]

\* C1: at most one session is open at a time: when a session acquires its
\* microphone stream and invokes connect (getUserMedia resolved, l. 143-158),
\* no earlier session still holds a live stream or a connection whose close
\* has neither happened nor been requested.
C1_AtMostOneSessionOpen ==
  last.op = "gumOk" => \A s \in Sessions : s < last.s => ~Holds(s)

\* C2: when onclose fires in CONNECTING or CONNECTED the status becomes
\* DISCONNECTED and full cleanup has run: stream, connection handle, capture
\* tap and output context released, live set empty, cursor reset.
C2_RemoteCloseCleansUp ==
  (last.op = "onclose" /\ last.prev \in Active) =>
     /\ status = "DISCONNECTED"
     /\ RefsNull
     /\ SessionReleased(last.s)
     /\ playingSourcesRef = {}
     /\ nextStartTimeRef = 0

\* C3: without the API credential start() ends in ERROR with getUserMedia
\* never called and no connection attempted.
C3_NoAcquisitionWithoutCredential ==
  ~apiKey => \A s \in Sessions :
               /\ pc[s] \in {"idle", "failed"}
               /\ stream[s] = "none"
               /\ conn[s] = "none"

\* C4: the start times handed to source.start are non-decreasing, and each
\* is at least the output clock's reading at that source.start call.
C4_StartTimesMonotonicAndNotPast ==
  /\ \A i \in 1..Len(sched) : sched[i].at >= sched[i].now
  /\ \A i, k \in 1..Len(sched) : i < k => sched[i].at <= sched[k].at

\* C5: buffers are scheduled in arrival order without overlap: for messages
\* m1 before m2 of one session with no interruption handled between m1's
\* arrival and the scheduling of both, m1's start + duration <= m2's start.
C5_ArrivalOrderNoOverlap ==
  \A i, k \in 1..Len(sched) :
     ( /\ sched[i].id < sched[k].id
       /\ sched[i].s = sched[k].s
       /\ sched[i].intrAt = sched[i].intrArr
       /\ sched[k].intrAt = sched[i].intrArr )
     => sched[i].at + sched[i].dur <= sched[k].at

C7_StopBeforeOpenReleasesAll ==
  stopPending # Null =>
     /\ conn[stopPending] # "open"
     /\ conn[stopPending] = "closed" => RefsNull /\ SessionReleased(stopPending)

\* C8: onclose changes the status only from CONNECTING or CONNECTED, to
\* DISCONNECTED; in IDLE, DISCONNECTED or ERROR it leaves the status as it is.
C8_OnCloseOnlyLeavesActiveStates ==
  last.op = "onclose" =>
     /\ last.prev \in Active => status = "DISCONNECTED"
     /\ last.prev \notin Active => status = last.prev

\* The close that follows an onerror arrives in ERROR and leaves it.
C8_Witness ==
  /\ last.op = "onclose"
  /\ last.prev = "ERROR"
  /\ status = "ERROR"

\* The steps C9 is about: onerror of session s, or its getUserMedia rejecting.
ErrorStep(s) ==
  \/ conn[s] # "errored" /\ conn'[s] = "errored"
  \/ pc[s] = "gum" /\ pc'[s] = "failed" /\ stream'[s] = "none"

\* C9: onerror, and a failed microphone acquisition, set ERROR and run the
\* full cleanup - the refs are null, what they pointed to is released, the
\* live set is empty, the cursor reset - and start nothing: no startChat
\* call, no timer, no other startChat call moved on.
C9_ErrorSetsErrorAndCleansUp ==
  [][\A s \in Sessions : ErrorStep(s) =>
        /\ status' = "ERROR"
        /\ RefsNull'
        /\ playingSourcesRef' = {}
        /\ nextStartTimeRef' = 0
        /\ localStreamRef # Null => stream'[localStreamRef] = "stopped"
        /\ outputAudioContextRef # Null => ctx'[outputAudioContextRef] = "closed"
        /\ inputAudioProcessorRef # Null => tap'[inputAudioProcessorRef] = "disconnected"
        /\ sessionPromiseRef # Null =>
              closeReq'[sessionPromiseRef] /\ conn'[sessionPromiseRef] # "open"
        /\ nStarted' = nStarted
        /\ timers' = timers
        /\ \A r \in Sessions \ {s} : pc'[r] = pc[r]]_vars

\* onerror on a connected session: ERROR, the session's stream stopped, its
\* context closed, its tap disconnected.
C9_Witness ==
  /\ last.op = "onerror"
  /\ last.prev = "CONNECTED"
  /\ status = "ERROR"
  /\ stream[last.s] = "stopped"
  /\ ctx[last.s] = "closed"
  /\ tap[last.s] = "disconnected"

\* C10: startChat is only carried out in IDLE, DISCONNECTED or ERROR, the
\* deferred start of next() included.
C10_StartOnlyFromInactiveStates ==
  last.op \in {"start", "timer"} => last.prev \notin Active

\* C11: after next() the cleanup of the session it leaves is complete before
\* the new session's CONNECTING is set: every startChat step, the deferred one
\* of next() included, ends with CONNECTING set, the refs null, what they
\* pointed to released (tracks stopped, close requested, tap disconnected,
\* context closed), the live set empty and the cursor 0.
C11_CleanupBeforeConnecting ==
  [][nStarted' = nStarted + 1 =>
        /\ status' = "CONNECTING"
        /\ RefsNull'
        /\ playingSourcesRef' = {}
        /\ nextStartTimeRef' = 0
        /\ localStreamRef # Null => stream'[localStreamRef] = "stopped"
        /\ outputAudioContextRef # Null => ctx'[outputAudioContextRef] = "closed"
        /\ inputAudioProcessorRef # Null => tap'[inputAudioProcessorRef] = "disconnected"
        /\ sessionPromiseRef # Null =>
              closeReq'[sessionPromiseRef] /\ conn'[sessionPromiseRef] # "open"]_vars

\* The deferred start of next() has just run on a connected session: the
\* status is CONNECTING and that session's stream is stopped, its context
\* closed, its tap disconnected and its connection closing.
C11_Witness ==
  /\ last.op = "timer"
  /\ last.prev = "DISCONNECTED"
  /\ status = "CONNECTING"
  /\ \E s \in Sessions :
        /\ s < last.s
        /\ stream[s] = "stopped"
        /\ ctx[s] = "closed"
        /\ tap[s] = "disconnected"
        /\ conn[s] = "closing"

\* The handlers that consist of cleanup() and a status write (stop, unmount,
\* the start of startChat, its catch after a rejected getUserMedia).
CleanupOps == {"stop", "unmount", "start", "timer", "gumFail"}

\* C12: cleanup is idempotent and safe on partial state: whenever it runs -
\* twice in a row, with nothing ever acquired, from stop() in IDLE or
\* DISCONNECTED - the refs end null, what they pointed to released, the live
\* set empty and the cursor 0; and run where the refs are already null, the
\* live set empty and the cursor 0, it changes no stream, connection, pending
\* callback, tap or context.
C12_CleanupIdempotent ==
  [][last'.op \in CleanupOps =>
        /\ RefsNull'
        /\ playingSourcesRef' = {}
        /\ nextStartTimeRef' = 0
        /\ localStreamRef # Null => stream'[localStreamRef] = "stopped"
        /\ outputAudioContextRef # Null => ctx'[outputAudioContextRef] = "closed"
        /\ inputAudioProcessorRef # Null => tap'[inputAudioProcessorRef] = "disconnected"
        /\ sessionPromiseRef # Null =>
              closeReq'[sessionPromiseRef] /\ conn'[sessionPromiseRef] # "open"
        /\ (RefsNull /\ playingSourcesRef = {} /\ nextStartTimeRef = 0) =>
              /\ stream' = stream
              /\ conn' = conn
              /\ closeReq' = closeReq
              /\ thens' = thens
              /\ tap' = tap
              /\ ctx' = ctx]_vars

\* stop() has run in DISCONNECTED after an earlier cleanup released a session.
C12_Witness ==
  /\ last.op = "stop"
  /\ last.prev = "DISCONNECTED"
  /\ RefsNull
  /\ \E s \in Sessions : stream[s] = "stopped" /\ ctx[s] = "closed"

\* C13: the frames sent on a connection reach sendRealtimeInput in capture
\* order, queued on a pending promise or not, and no send runs on a connection
\* after cleanup asked for its close: a send registered before the close runs
\* before it, and none is registered behind it.
C13_FramesInOrderNoneAfterClose ==
  /\ \A i, k \in 1..Len(sent) :
        (i < k /\ sent[i].s = sent[k].s) => sent[i].f < sent[k].f
  /\ \A i \in 1..Len(sent) : ~sent[i].afterClose
  /\ \A s \in Sessions : \A i, k \in 1..Len(thens[s]) :
        i < k => /\ thens[s][i] = CloseCall => thens[s][k] = CloseCall
                 /\ thens[s][k] # CloseCall => thens[s][i] < thens[s][k]

\* A frame queued on a pending promise, then cleanup: at onopen the frame was
\* sent and the connection closed after it.
C13_Witness ==
  /\ last.op = "onopen"
  /\ Len(sent) >= 1
  /\ sent[Len(sent)].s = last.s
  /\ closeReq[last.s]
  /\ conn[last.s] = "closing"

\* C14: gapless contiguity: B's message arrives right after A's on one
\* session and one output context, no interruption is handled from A's arrival
\* to the scheduling of both, and A's scheduled end has not passed on the
\* output clock when B is scheduled; then B starts where A ends.
C14_GaplessContiguity ==
  \A i, k \in 1..Len(sched) :
     ( /\ sched[k].id = sched[i].id + 1
       /\ sched[i].s = sched[k].s
       /\ sched[i].c = sched[k].c
       /\ sched[i].intrAt = sched[i].intrArr
       /\ sched[k].intrArr = sched[i].intrArr
       /\ sched[k].intrAt = sched[i].intrArr
       /\ sched[i].at + sched[i].dur >= sched[k].now )
     => sched[k].at = sched[i].at + sched[i].dur

\* C15: a decode failure is contained: the step changes neither the status
\* nor a ref, stream, connection, pending callback, tap or context, neither
\* the live set nor the scheduling log, and leaves the other pending decodes
\* pending; and a failed payload never has a playback handle or a start.
C15_DecodeFailureContained ==
  [][/\ last'.op = "decodeFailed" =>
           /\ status' = status
           /\ UNCHANGED <<sessionPromiseRef, localStreamRef, outputAudioContextRef,
                          inputAudioProcessorRef>>
           /\ UNCHANGED <<stream, conn, closeReq, thens, tap, ctx>>
           /\ playingSourcesRef' = playingSourcesRef
           /\ sched' = sched
           /\ decoding' \subseteq decoding
           /\ Cardinality(decoding') = Cardinality(decoding) - 1
     /\ \A id \in dropped' :
           /\ id \notin playingSourcesRef'
           /\ \A i \in 1..Len(sched') : sched'[i].id # id]_vars

\* After a payload of the only session failed to decode, a later payload of
\* that session has been scheduled and is in the live set.
C15_Witness ==
  /\ last.op = "decoded"
  /\ nStarted = 1
  /\ \E id \in dropped :
        /\ sched[Len(sched)].id > id
        /\ sched[Len(sched)].id \in playingSourcesRef

\* C16: no buffer whose message arrived before an interruption is scheduled
\* after that interruption was handled, a buffer that was still being decoded
\* included: every source.start happens with as many interruptions handled as
\* when its message arrived.
C16_NothingOlderThanInterruptScheduled ==
  \A i \in 1..Len(sched) : sched[i].intrAt = sched[i].intrArr

\* C17: an onopen that arrives when the status is not CONNECTING leaves the
\* status as it is and creates no capture tap.
C17_OpenOnlyWhenConnecting ==
  (last.op = "onopen" /\ last.prev # "CONNECTING") =>
     /\ status = last.prev
     /\ tap[last.s] # "connected"

\* C18: next() runs the full cleanup before its settle delay: right after
\* next() has set DISCONNECTED the refs are null, no session holds a live
\* stream, an unclosed connection, a connected tap or a running context, and
\* the live set is empty.
C18_NextCleansUpBeforeDelay ==
  last.op = "next" =>
     /\ RefsNull
     /\ \A s \in Sessions : SessionReleased(s)
     /\ playingSourcesRef = {}

\* C19: callbacks of a replaced session do not touch its replacement: an
\* onopen, onclose or onerror of a session older than the latest startChat
\* call leaves the status as it is, and audio of a session is only ever
\* scheduled on that session's own output context.
C19_StaleCallbacksIgnored ==
  /\ (last.op \in {"onopen", "onclose", "onerror"} /\ last.s < nStarted) =>
        status = last.prev
  /\ \A i \in 1..Len(sched) : sched[i].c = sched[i].s

\* C20: a startChat call that was awaiting getUserMedia when stop() or the
\* unmount ran is cancelled: with no startChat call since, it retains no
\* stream and creates no output context and no connection (so no onopen of
\* it can set CONNECTED).
C20_PendingStartCancelled ==
  \A s \in cancelledStarts :
     /\ stream[s] # "live"
     /\ localStreamRef # s
     /\ ctx[s] = "none"
     /\ conn[s] = "none"

====
